---- MODULE Spec2Model ----
(***************************************************************************)
(* MockApi v3.0 (frontend/mock.api.js/index.js): route registration and    *)
(* matching, request-body schema validation and the fetch() dispatcher.    *)
(*                                                                         *)
(* Strings that the code splits, slices or decodes (paths, segments) are   *)
(* sequences of one-character strings; other strings are TLA+ strings.     *)
(***************************************************************************)
EXTENDS Integers, Sequences, FiniteSets, TLC

VARIABLES
  db,       \* this.db: FALSE until init() resolved (null), TRUE afterwards
  routes,   \* this.routes, in registration order
  store,    \* records of the object store behind this.dbWrapper
  reqs,     \* one entry per call of fetch(): its position and locals
  rcall,    \* the last direct call of _findRoute and what it produced
  vcall,    \* the last direct call of validateSchema and what it produced
  qcall,    \* the last direct call of DbWrapper.find and what it produced
  icall     \* the last call of importData: its data, the store before and after, its outcome

vars == <<db, routes, store, reqs, rcall, vcall, qcall, icall>>

\* ---------------------------------------------------------------- bounds
MaxRoutes == 2        \* routes registered in one run
MaxHandlerOps == 2    \* calls a handler makes on res / the store before it settles
MaxNumber == 3        \* the largest number a stored or queried string can spell

NULL == "null"            \* null where the code stores null or a name (route.schema)

\* ------------------------------------------------------- string helpers
RECURSIVE SplitAcc(_, _, _)
SplitAcc(s, cur, acc) ==
  IF s = <<>> THEN Append(acc, cur)
  ELSE IF Head(s) = "/" THEN SplitAcc(Tail(s), <<>>, Append(acc, cur))
  ELSE SplitAcc(Tail(s), Append(cur, Head(s)), acc)

\* String.prototype.split('/')
Split(s) == SplitAcc(s, <<>>, <<>>)

\* filter(Boolean) left out: the empty strings stay
FilterBooleanKeepsAll(segs) == segs

\* Array.prototype.filter(Boolean) on an array of strings: drops ''
FilterBoolean(segs) == SelectSeq(segs, LAMBDA g : g # <<>>)

\* path.split('/').filter(Boolean)
SplitPath(path) == FilterBoolean(Split(path))

\* segment.startsWith(':')
StartsWithColon(seg) == Len(seg) > 0 /\ seg[1] = ":"

\* segment.substring(1)
Substring1(seg) == IF Len(seg) = 0 THEN <<>> ELSE Tail(seg)

HexChars == {"0","1","2","3","4","5","6","7","8","9",
             "a","b","c","d","e","f","A","B","C","D","E","F"}

HexVal(c) ==
  CASE c = "0" -> 0 [] c = "1" -> 1 [] c = "2" -> 2 [] c = "3" -> 3
    [] c = "4" -> 4 [] c = "5" -> 5 [] c = "6" -> 6 [] c = "7" -> 7
    [] c = "8" -> 8 [] c = "9" -> 9
    [] c \in {"a", "A"} -> 10 [] c \in {"b", "B"} -> 11
    [] c \in {"c", "C"} -> 12 [] c \in {"d", "D"} -> 13
    [] c \in {"e", "E"} -> 14 [] c \in {"f", "F"} -> 15

\* printable ASCII, code points 32..126 (quote, backslash and backtick as U+n tokens)
Ascii ==
  <<" ","!","U+34","#","$","%","&","'","(",")","*","+",",","-",".","/",
    "0","1","2","3","4","5","6","7","8","9",":",";","<","=",">","?",
    "@","A","B","C","D","E","F","G","H","I","J","K","L","M","N","O",
    "P","Q","R","S","T","U","V","W","X","Y","Z","[","U+92","]","^","_",
    "U+96","a","b","c","d","e","f","g","h","i","j","k","l","m","n","o",
    "p","q","r","s","t","u","v","w","x","y","z","{","|","}","~">>

\* the character with code point cp (outside printable ASCII: a U+n token)
Chr(cp) == IF cp >= 32 /\ cp <= 126 THEN Ascii[cp - 31] ELSE "U+" \o ToString(cp)

\* s starts with '%' and two hex digits
IsEscape(s) == Len(s) >= 3 /\ s[1] = "%" /\ s[2] \in HexChars /\ s[3] \in HexChars
EscapeByte(s) == 16 * HexVal(s[2]) + HexVal(s[3])

\* number of UTF-8 continuation octets announced by lead octet b (-1: invalid lead)
Continuations(b) ==
  IF b < 128 THEN 0
  ELSE IF b >= 192 /\ b < 224 THEN 1
  ELSE IF b >= 224 /\ b < 240 THEN 2
  ELSE IF b >= 240 /\ b < 248 THEN 3
  ELSE -1

LeadBits(b, n) ==
  IF n = 0 THEN b ELSE IF n = 1 THEN b - 192 ELSE IF n = 2 THEN b - 224 ELSE b - 240

MinCodePoint(n) == IF n = 0 THEN 0 ELSE IF n = 1 THEN 128 ELSE IF n = 2 THEN 2048 ELSE 65536

\* reads n escaped continuation octets from s; cp accumulates the code point
RECURSIVE ReadContinuations(_, _, _)
ReadContinuations(s, n, cp) ==
  IF n = 0 THEN [ok |-> TRUE, cp |-> cp, rest |-> s]
  ELSE IF ~IsEscape(s) THEN [ok |-> FALSE]
  ELSE IF EscapeByte(s) < 128 \/ EscapeByte(s) >= 192 THEN [ok |-> FALSE]
  ELSE ReadContinuations(SubSeq(s, 4, Len(s)), n - 1, cp * 64 + (EscapeByte(s) - 128))

\* decodeURIComponent(s): [ok |-> TRUE, v |-> decoded] or, for a malformed
\* escape sequence, [ok |-> FALSE] (the call throws URIError)
RECURSIVE decodeURIComponent(_)
decodeURIComponent(s) ==
  IF s = <<>> THEN [ok |-> TRUE, v |-> <<>>]
  ELSE IF Head(s) # "%" THEN
    LET r == decodeURIComponent(Tail(s))
    IN  IF r.ok THEN [ok |-> TRUE, v |-> <<Head(s)>> \o r.v] ELSE r
  ELSE IF ~IsEscape(s) THEN [ok |-> FALSE]
  ELSE
    LET b == EscapeByte(s)
        n == Continuations(b)
    IN  IF n < 0 THEN [ok |-> FALSE]
        ELSE
          LET c == ReadContinuations(SubSeq(s, 4, Len(s)), n, LeadBits(b, n))
          IN  IF ~c.ok THEN [ok |-> FALSE]
              ELSE IF c.cp < MinCodePoint(n) \/ c.cp > 1114111
                      \/ (c.cp >= 55296 /\ c.cp <= 57343) THEN [ok |-> FALSE]
              ELSE LET r == decodeURIComponent(c.rest)
                   IN  IF r.ok THEN [ok |-> TRUE, v |-> <<Chr(c.cp)>> \o r.v] ELSE r

\* String.prototype.toUpperCase on the method names a caller passes
toUpperCase(m) ==
  CASE m = "get" -> "GET" [] m = "post" -> "POST" [] m = "put" -> "PUT"
    [] m = "patch" -> "PATCH" [] m = "delete" -> "DELETE" [] m = "head" -> "HEAD"
    [] OTHER -> m

\* ------------------------------------------------------------- routing
\* the params array _register computes: {name, index} per ':' segment (index 0-based)
RECURSIVE RouteParams(_, _)
RouteParams(segs, i) ==
  IF i > Len(segs) THEN <<>>
  ELSE IF StartsWithColon(segs[i])
       THEN <<[name |-> Substring1(segs[i]), index |-> i - 1]>> \o RouteParams(segs, i + 1)
       ELSE RouteParams(segs, i + 1)

\* the route object _register pushes; args is <<handler>> or <<schema, handler>>
MakeRoute(method, path, args) ==
  LET schema  == IF Len(args) = 2 THEN args[1] ELSE NULL
      handler == IF Len(args) = 2 THEN args[2] ELSE args[1]
      pathSegments == SplitPath(path)
  IN  [method |-> toUpperCase(method), path |-> path, pathSegments |-> pathSegments,
       params |-> RouteParams(pathSegments, 1), schema |-> schema, handler |-> handler]

\* params[k] = v on a plain object
Put(f, k, v) == [x \in (DOMAIN f) \cup {k} |-> IF x = k THEN v ELSE f[x]]

\* the inner loop of _findRoute over the segments of one route, from position i
RECURSIVE MatchSegments(_, _, _, _)
MatchSegments(routeSegments, requestSegments, i, params) ==
  IF i > Len(routeSegments) THEN [kind |-> "match", params |-> params]
  ELSE IF StartsWithColon(routeSegments[i]) THEN
    LET d == decodeURIComponent(requestSegments[i])
    IN  IF ~d.ok THEN [kind |-> "URIError"]
        ELSE MatchSegments(routeSegments, requestSegments, i + 1,
                           Put(params, Substring1(routeSegments[i]), d.v))
  ELSE IF routeSegments[i] # requestSegments[i] THEN [kind |-> "nomatch"]
  ELSE MatchSegments(routeSegments, requestSegments, i + 1, params)

\* _findRoute with `const params = {}` declared once, before the loop over
\* the routes: what a route that fails later has captured stays in params
RECURSIVE MatchSegmentsKeep(_, _, _, _)
MatchSegmentsKeep(routeSegments, requestSegments, i, params) ==
  IF i > Len(routeSegments) THEN [kind |-> "match", params |-> params]
  ELSE IF StartsWithColon(routeSegments[i]) THEN
    LET d == decodeURIComponent(requestSegments[i])
    IN  IF ~d.ok THEN [kind |-> "URIError", params |-> params]
        ELSE MatchSegmentsKeep(routeSegments, requestSegments, i + 1,
                               Put(params, Substring1(routeSegments[i]), d.v))
  ELSE IF routeSegments[i] # requestSegments[i] THEN [kind |-> "nomatch", params |-> params]
  ELSE MatchSegmentsKeep(routeSegments, requestSegments, i + 1, params)

RECURSIVE FindRouteShared(_, _, _, _, _)
FindRouteShared(rts, k, method, requestSegments, params) ==
  IF k > Len(rts) THEN [kind |-> "null"]
  ELSE IF rts[k].method # method \/ Len(rts[k].pathSegments) # Len(requestSegments)
       THEN FindRouteShared(rts, k + 1, method, requestSegments, params)
  ELSE LET m == MatchSegmentsKeep(rts[k].pathSegments, requestSegments, 1, params)
       IN  IF m.kind = "match" THEN [kind |-> "match", index |-> k, params |-> m.params]
           ELSE IF m.kind = "URIError" THEN [kind |-> "URIError"]
           ELSE FindRouteShared(rts, k + 1, method, requestSegments, m.params)

FindRouteFromSharedParams(rts, k, method, requestSegments) ==
  FindRouteShared(rts, k, method, requestSegments, <<>>)

\* the outer loop of _findRoute, from route k
RECURSIVE FindRouteFrom(_, _, _, _)
FindRouteFrom(rts, k, method, requestSegments) ==
  IF k > Len(rts) THEN [kind |-> "null"]
  ELSE IF rts[k].method # method \/ Len(rts[k].pathSegments) # Len(requestSegments)
       THEN FindRouteFrom(rts, k + 1, method, requestSegments)
  ELSE LET m == MatchSegments(rts[k].pathSegments, requestSegments, 1, <<>>)
       IN  IF m.kind = "match" THEN [kind |-> "match", index |-> k, params |-> m.params]
           ELSE IF m.kind = "URIError" THEN [kind |-> "URIError"]
           ELSE FindRouteFrom(rts, k + 1, method, requestSegments)

\* _findRoute(method, urlPath): {route, params} (route given by its index),
\* null, or the URIError thrown by decodeURIComponent
FindRoute(rts, method, urlPath) == FindRouteFrom(rts, 1, method, SplitPath(urlPath))

\* ---------------------------------------------------------- JS values
\* A value is a record tagged by t: [t |-> "string", s |-> ...],
\* [t |-> "number", n |-> ...], [t |-> "null"], or an object
\* [t |-> "object", f |-> mapping from own property names to values].
\* A property that is not in DOMAIN f reads as undefined.
JNull == [t |-> "null"]
JStr(x) == [t |-> "string", s |-> x]
JNum(x) == [t |-> "number", n |-> x]
JObj(fields) == [t |-> "object", f |-> fields]

\* o has own property k (o.k is not undefined)
Has(o, k) == k \in DOMAIN o

\* typeof v
TypeOf(v) == IF v.t = "null" THEN "object" ELSE v.t

\* String(v) for the values an enum lists
ToStr(v) == IF v.t = "string" THEN v.s ELSE IF v.t = "number" THEN ToString(v.n) ELSE v.t

\* Array.prototype.join(', ')
RECURSIVE Join(_)
Join(a) ==
  IF a = <<>> THEN ""
  ELSE IF Len(a) = 1 THEN ToStr(a[1])
  ELSE ToStr(a[1]) \o ", " \o Join(Tail(a))

\* Array.prototype.includes(value)
Includes(a, value) == \E i \in 1..Len(a) : a[i] = value

\* --------------------------------------------------------- validation
\* A rule is a record holding the properties the schema declares, among
\* type, required, minLength, maxLength, pattern, min, max, enum; pattern is
\* the set of strings its RegExp accepts.

\* value !== undefined && value !== null, for value = data[key]
IsPresent(data, key) == Has(data.f, key) /\ data.f[key].t # "null"

\* the switch (rule.type) of validateSchema
TypeSpecificErrors(rule, value) ==
  IF Has(rule, "type") /\ rule.type = "string" THEN
       (IF Has(rule, "minLength") /\ rule.minLength # 0 /\ Len(value.s) < rule.minLength
        THEN <<"Minimum length is " \o ToString(rule.minLength)>> ELSE <<>>)
    \o (IF Has(rule, "maxLength") /\ rule.maxLength # 0 /\ Len(value.s) > rule.maxLength
        THEN <<"Maximum length is " \o ToString(rule.maxLength)>> ELSE <<>>)
    \o (IF Has(rule, "pattern") /\ value.s \notin rule.pattern
        THEN <<"Does not match pattern">> ELSE <<>>)
  ELSE IF Has(rule, "type") /\ rule.type = "number" THEN
       (IF Has(rule, "min") /\ value.n < rule.min
        THEN <<"Minimum value is " \o ToString(rule.min)>> ELSE <<>>)
    \o (IF Has(rule, "max") /\ value.n > rule.max
        THEN <<"Maximum value is " \o ToString(rule.max)>> ELSE <<>>)
  ELSE <<>>

\* FieldErrors that runs the constraints only when the type agrees and never
\* reports the disagreement
FieldErrorsSilentType(rule, data, key) ==
  IF Has(rule, "required") /\ rule.required /\ ~IsPresent(data, key)
  THEN <<"Field is required">>
  ELSE IF IsPresent(data, key) THEN
    LET value == data.f[key]
    IN     (IF Has(rule, "type") /\ rule.type # "" /\ TypeOf(value) # rule.type
            THEN <<>>
            ELSE TypeSpecificErrors(rule, value))
        \o (IF Has(rule, "enum") /\ ~Includes(rule.enum, value)
            THEN <<"Value must be one of: " \o Join(rule.enum)>> ELSE <<>>)
  ELSE <<>>

\* FieldErrors with the required test written as !value: '' and 0 count as missing
FieldErrorsFalsy(rule, data, key) ==
  LET falsy == \/ ~IsPresent(data, key)
               \/ (data.f[key].t = "string" /\ data.f[key].s = "")
               \/ (data.f[key].t = "number" /\ data.f[key].n = 0)
  IN  IF Has(rule, "required") /\ rule.required /\ falsy
      THEN <<"Field is required">>
      ELSE IF IsPresent(data, key) THEN
        LET value == data.f[key]
        IN     (IF Has(rule, "type") /\ rule.type # "" /\ TypeOf(value) # rule.type
                THEN <<"Type must be '" \o rule.type \o "'">>
                ELSE TypeSpecificErrors(rule, value))
            \o (IF Has(rule, "enum") /\ ~Includes(rule.enum, value)
                THEN <<"Value must be one of: " \o Join(rule.enum)>> ELSE <<>>)
      ELSE <<>>

\* the body of the for (key in schema) loop: fieldErrors for one key
FieldErrors(rule, data, key) ==
  IF Has(rule, "required") /\ rule.required /\ ~IsPresent(data, key)
  THEN <<"Field is required">>
  ELSE IF IsPresent(data, key) THEN
    LET value == data.f[key]
    IN     (IF Has(rule, "type") /\ rule.type # "" /\ TypeOf(value) # rule.type
            THEN <<"Type must be '" \o rule.type \o "'">>
            ELSE TypeSpecificErrors(rule, value))
        \o (IF Has(rule, "enum") /\ ~Includes(rule.enum, value)
            THEN <<"Value must be one of: " \o Join(rule.enum)>> ELSE <<>>)
  ELSE <<>>

GlobalError == "Request body was expected to be an object."

\* validateSchema that stores fieldErrors for every key, empty or not
validateSchemaKeepsEmpty(data, schema) ==
  IF TypeOf(data) # "object" \/ data.t = "null"
  THEN [success |-> FALSE, errors |-> [_global |-> GlobalError]]
  ELSE
    LET errors  == [key \in DOMAIN schema |-> FieldErrors(schema[key], data, key)]
        isValid == DOMAIN schema = {}
    IN  [success |-> isValid, errors |-> IF ~isValid THEN errors ELSE JNull]

\* validateSchema(data, schema): { success, errors }
validateSchema(data, schema) ==
  IF TypeOf(data) # "object" \/ data.t = "null"
  THEN [success |-> FALSE, errors |-> [_global |-> GlobalError]]
  ELSE
    LET failing == {key \in DOMAIN schema : FieldErrors(schema[key], data, key) # <<>>}
        errors  == [key \in failing |-> FieldErrors(schema[key], data, key)]
        isValid == failing = {}
    IN  [success |-> isValid, errors |-> IF ~isValid THEN errors ELSE JNull]

\* ------------------------------------------------------ ResponseHelper
\* JSON.stringify(data): the JSON text of data, kept as the value it encodes
JSONStringify(data) == [json |-> data]

\* new ResponseHelper()
NewResponseHelper == [status |-> 200, body |-> JNull, contentType |-> "application/json"]

\* res.status(code)
Status(res, code) == [res EXCEPT !.status = code]

\* res.json(data)
Json(res, data) == [res EXCEPT !.body = JSONStringify(data), !.contentType = "application/json"]

\* res.send(data)
Send(res, data) ==
  IF TypeOf(data) = "object" /\ data.t # "null" THEN Json(res, data)
  ELSE [res EXCEPT !.body = [text |-> ToStr(data)], !.contentType = "text/plain"]

\* statusTextMap[status] || ''
StatusText(status) ==
  CASE status = 200 -> "OK" [] status = 201 -> "Created" [] status = 204 -> "No Content"
    [] status = 400 -> "Bad Request" [] status = 404 -> "Not Found"
    [] status = 500 -> "Internal Server Error" [] OTHER -> ""

\* the statuses for which new Response(body, ...) accepts only a null body
NullBodyStatuses == {101, 103, 204, 205, 304}

\* what new Response(this._body, {status: this._status, ...}) throws: a
\* RangeError for a status outside 200..599, a TypeError for a body given with
\* a null-body status
BuildError(res) ==
  IF res.status < 200 \/ res.status > 599
  THEN "RangeError: The status provided is outside the range [200, 599]."
  ELSE IF res.status \in NullBodyStatuses /\ res.body # JNull
  THEN "TypeError: Response with null body status cannot have body"
  ELSE "none"

\* res.build(): the Response handed to the caller
Build(res) ==
  [status |-> res.status, statusText |-> StatusText(res.status), body |-> res.body,
   contentType |-> res.contentType]

\* ----------------------------------------------------------- requests
\* the characters of s as one string
RECURSIVE Str(_)
Str(s) == IF s = <<>> THEN "" ELSE Head(s) \o Str(Tail(s))

\* the schemas routes are registered with (the PostSchema of the usage example)
Schemas ==
  [PostSchema |->
     [title  |-> [type |-> "string", required |-> TRUE, minLength |-> 5],
      status |-> [type |-> "string", required |-> TRUE,
                  enum |-> <<JStr("draft"), JStr("published")>>]]]

\* request bodies a caller passes as options.body
BodyOk == "{\"title\":\"A New Post\",\"status\":\"draft\"}"
BodyShort == "{\"title\":\"ok\",\"status\":\"draft\"}"
BodyNumber == "5"
BodyMalformed == "{title:"

\* JSON.parse(text) on those bodies: [ok |-> TRUE, v |-> value], or
\* [ok |-> FALSE] when it throws SyntaxError
JSONParse(text) ==
  CASE text = BodyOk ->
         [ok |-> TRUE, v |-> JObj([title |-> JStr("A New Post"), status |-> JStr("draft")])]
    [] text = BodyShort ->
         [ok |-> TRUE, v |-> JObj([title |-> JStr("ok"), status |-> JStr("draft")])]
    [] text = BodyNumber -> [ok |-> TRUE, v |-> JNum(5)]
    [] OTHER -> [ok |-> FALSE]

\* ParseBody with a catch that leaves body null
ParseBodyNoFallback(options) ==
  IF Has(options, "body") /\ options.body # ""
  THEN LET p == JSONParse(options.body)
       IN  IF p.ok THEN p.v ELSE JNull
  ELSE JNull

\* let body = null; if (options.body) { try { JSON.parse } catch { raw } }
ParseBody(options) ==
  IF Has(options, "body") /\ options.body # ""
  THEN LET p == JSONParse(options.body)
       IN  IF p.ok THEN p.v ELSE JStr(options.body)
  ELSE JNull

\* (options.method || 'GET').toUpperCase()
RequestMethod(options) ==
  toUpperCase(IF Has(options, "method") /\ options.method # "" THEN options.method ELSE "GET")

NoResponse == [status |-> 0, statusText |-> "", body |-> JNull, contentType |-> ""]
NoContext == [params |-> <<>>, query |-> <<>>, body |-> JNull]

\* a call of fetch() that has not been made yet
IdleReq ==
  [pc |-> "idle", trace |-> <<>>, url |-> [pathname |-> <<>>, query |-> <<>>],
   options |-> <<>>, method |-> "", seen |-> 0, routeIndex |-> 0, body |-> JNull,
   req |-> NoContext, res |-> NewResponseHelper, response |-> NoResponse,
   handlerCalls |-> 0, builds |-> 0, ops |-> 0, writes |-> 0,
   thrown |-> "none", logged |-> "none", error |-> "none"]

NotFoundResponse(method, pathname) ==
  Build(Json(Status(NewResponseHelper, 404),
             JObj([message |-> JStr("Route " \o method \o " " \o Str(pathname) \o " not found.")])))

ValidationErrorResponse(errors) ==
  Build(Json(Status(NewResponseHelper, 400),
             JObj([message |-> JStr("Validation Error"), errors |-> errors])))

InternalErrorResponse ==
  Build(Json(Status(NewResponseHelper, 500), JObj([message |-> JStr("Internal Server Error")])))

\* NeedsValidation with POST left out of the list of methods
NeedsValidationNoPost(route, method) == route.schema # NULL /\ method \in {"PUT", "PATCH"}

\* route.schema && ['POST', 'PUT', 'PATCH'].includes(method)
NeedsValidation(route, method) == route.schema # NULL /\ method \in {"POST", "PUT", "PATCH"}

\* --------------------------------------------------------------- state
Ids == {1}                           \* the calls of fetch() a run makes
StoreNames == {"posts", "users"}     \* options.stores
SeedData == [posts |-> <<>>, users |-> <<>>]

Init ==
  /\ db = FALSE
  /\ routes = <<>>
  /\ store = [n \in StoreNames |-> <<>>]
  /\ reqs = [i \in Ids |-> IdleReq]
  /\ rcall = [made |-> FALSE]
  /\ vcall = [made |-> FALSE]
  /\ qcall = [made |-> FALSE]
  /\ icall = [made |-> FALSE]

\* init(): the database is opened (stores created and seeded on upgrade)
InitDb ==
  /\ ~db
  /\ db' = TRUE
  /\ store' = [n \in StoreNames |-> SeedData[n]]
  /\ UNCHANGED <<routes, reqs, rcall, vcall, qcall, icall>>

\* _register(method, path, ...args), reached through get/post/put/delete/patch
Register(method, path, args) ==
  /\ Len(routes) < MaxRoutes
  /\ routes' = Append(routes, MakeRoute(method, path, args))
  /\ UNCHANGED <<db, store, reqs, rcall, vcall, qcall, icall>>

\* fetch(input, options) up to its first await: the guard on this.db, then the delay
FetchCall(i, url, options) ==
  /\ reqs[i].pc = "idle"
  /\ reqs' = [reqs EXCEPT ![i] =
       IF ~db
       THEN [@ EXCEPT !.pc = "raised", !.url = url, !.options = options,
                      !.error = "NotInitialized"]
       ELSE [@ EXCEPT !.pc = "delay", !.url = url, !.options = options,
                      !.trace = <<"Received">>]]
  /\ UNCHANGED <<db, routes, store, rcall, vcall, qcall, icall>>

\* fetch() from the end of the delay to the call of the handler (or an early return)
FetchResume(i) ==
  /\ reqs[i].pc = "delay"
  /\ LET r0 == reqs[i]
         r == [r0 EXCEPT !.seen = Len(routes)]   \* the routes _findRoute iterates over
         method == RequestMethod(r.options)
         routeMatch == FindRoute(routes, method, r.url.pathname)
     IN  reqs' = [reqs EXCEPT ![i] =
           IF routeMatch.kind = "URIError" THEN
             [r EXCEPT !.pc = "raised", !.method = method, !.error = "URIError"]
           ELSE IF routeMatch.kind = "null" THEN
             [r EXCEPT !.pc = "responded", !.method = method,
                       !.trace = @ \o <<"NotFound", "Responded">>,
                       !.response = NotFoundResponse(method, r.url.pathname),
                       !.builds = @ + 1]
           ELSE
             LET route == routes[routeMatch.index]
                 body == ParseBody(r.options)
                 validationResult == validateSchema(body, Schemas[route.schema])
             IN  IF NeedsValidation(route, method) /\ ~validationResult.success THEN
                   [r EXCEPT !.pc = "responded", !.method = method,
                             !.routeIndex = routeMatch.index, !.body = body,
                             !.trace = @ \o <<"Matched", "ValidationFailed", "Responded">>,
                             !.response = ValidationErrorResponse(validationResult.errors),
                             !.builds = @ + 1]
                 ELSE
                   [r EXCEPT !.pc = "handler", !.method = method,
                             !.routeIndex = routeMatch.index, !.body = body,
                             !.trace = @ \o <<"Matched">>
                                         \o (IF NeedsValidation(route, method)
                                             THEN <<"Validated">> ELSE <<>>)
                                         \o <<"HandlerRunning">>,
                             !.req = [params |-> routeMatch.params, query |-> r.url.query,
                                      body |-> body],
                             !.res = NewResponseHelper,
                             !.handlerCalls = @ + 1]]
  /\ UNCHANGED <<db, routes, store, rcall, vcall, qcall, icall>>

\* ------------------------------------------------------------ handlers
\* A handler is opaque application code: between its call and its completion
\* it makes at most MaxHandlerOps calls on res and the store, then returns
\* (its promise resolves) or throws (its promise rejects).
HandlerStatuses == {201, 204, 404}
HandlerErrors == {"TypeError: boom", "Error: secret"}
NotFoundText == JStr("Not Found")

Running(i) == reqs[i].pc = "handler" /\ reqs[i].ops < MaxHandlerOps

\* handler: res.status(code)
HandlerStatus(i, code) ==
  /\ Running(i)
  /\ reqs' = [reqs EXCEPT ![i].res = Status(@, code), ![i].ops = @ + 1]
  /\ UNCHANGED <<db, routes, store, rcall, vcall, qcall, icall>>

\* res.json on a res that all the requests in flight share
HandlerJsonSharedRes(i) ==
  /\ Running(i)
  /\ reqs' = [j \in DOMAIN reqs |->
                IF j = i THEN [reqs[j] EXCEPT !.res = Json(@, reqs[i].req.body), !.ops = @ + 1]
                ELSE [reqs[j] EXCEPT !.res = Json(@, reqs[i].req.body)]]
  /\ UNCHANGED <<db, routes, store, rcall, vcall, qcall, icall>>

\* handler: res.json(req.body)
HandlerJson(i) ==
  /\ Running(i)
  /\ reqs' = [reqs EXCEPT ![i].res = Json(@, reqs[i].req.body), ![i].ops = @ + 1]
  /\ UNCHANGED <<db, routes, store, rcall, vcall, qcall, icall>>

\* handler: res.send('Not Found')
HandlerSend(i) ==
  /\ Running(i)
  /\ reqs' = [reqs EXCEPT ![i].res = Send(@, NotFoundText), ![i].ops = @ + 1]
  /\ UNCHANGED <<db, routes, store, rcall, vcall, qcall, icall>>

\* the item DbWrapper.add stores: item.id is set when it is missing
WithId(item, n) ==
  IF Has(item.f, "id") THEN item
  ELSE JObj(Put(item.f, "id", JStr("uuid-" \o ToString(n))))

\* handler: db.add('posts', req.body); a body that is not an object makes
\* add() reject without touching the store
HandlerAdd(i) ==
  /\ Running(i)
  /\ LET item == reqs[i].req.body
     IN  IF item.t = "object"
         THEN /\ store' = [store EXCEPT !["posts"] = Append(@, WithId(item, Len(@) + 1))]
              /\ reqs' = [reqs EXCEPT ![i].ops = @ + 1, ![i].writes = @ + 1,
                                      ![i].req.body = WithId(item, Len(store["posts"]) + 1),
                                      ![i].body = WithId(item, Len(store["posts"]) + 1)]
         ELSE /\ store' = store
              /\ reqs' = [reqs EXCEPT ![i].ops = @ + 1]
  /\ UNCHANGED <<db, routes, rcall, vcall, qcall, icall>>

\* the handler returns / its promise resolves
HandlerReturn(i) ==
  /\ reqs[i].pc = "handler"
  /\ reqs' = [reqs EXCEPT ![i].pc = "handlerOk", ![i].trace = @ \o <<"HandlerOk">>]
  /\ UNCHANGED <<db, routes, store, rcall, vcall, qcall, icall>>

\* the handler throws / its promise rejects with err
HandlerThrow(i, err) ==
  /\ reqs[i].pc = "handler"
  /\ reqs' = [reqs EXCEPT ![i].pc = "handlerFailed", ![i].thrown = err,
                          ![i].trace = @ \o <<"HandlerFailed">>]
  /\ UNCHANGED <<db, routes, store, rcall, vcall, qcall, icall>>

\* fetch() after the awaited handler settled well: return res.build(); the
\* call is inside the try, so what build() throws is caught, logged and
\* answered with the fresh 500 response
FetchReturn(i) ==
  /\ reqs[i].pc = "handlerOk"
  /\ IF BuildError(reqs[i].res) = "none"
     THEN reqs' = [reqs EXCEPT ![i].pc = "responded", ![i].response = Build(reqs[i].res),
                               ![i].builds = @ + 1, ![i].trace = @ \o <<"Responded">>]
     ELSE reqs' = [reqs EXCEPT ![i].pc = "responded", ![i].logged = BuildError(reqs[i].res),
                               ![i].response = InternalErrorResponse,
                               ![i].builds = @ + 1, ![i].trace = @ \o <<"Responded">>]
  /\ UNCHANGED <<db, routes, store, rcall, vcall, qcall, icall>>

\* FetchCatch answering with the handler's own res, its status set to 500
FetchCatchReusesRes(i) ==
  /\ reqs[i].pc = "handlerFailed"
  /\ reqs' = [reqs EXCEPT ![i].pc = "responded", ![i].logged = reqs[i].thrown,
                          ![i].response = Build(Status(reqs[i].res, 500)),
                          ![i].builds = @ + 1, ![i].trace = @ \o <<"Responded">>]
  /\ UNCHANGED <<db, routes, store, rcall, vcall, qcall, icall>>

\* fetch(), catch (error): log it, return a fresh 500 response
FetchCatch(i) ==
  /\ reqs[i].pc = "handlerFailed"
  /\ reqs' = [reqs EXCEPT ![i].pc = "responded", ![i].logged = reqs[i].thrown,
                          ![i].response = InternalErrorResponse,
                          ![i].builds = @ + 1, ![i].trace = @ \o <<"Responded">>]
  /\ UNCHANGED <<db, routes, store, rcall, vcall, qcall, icall>>

\* ------------------------------------------------- the dispatcher's runs
\* routes the application registers: <<method, path, args>>
AppRoutes ==
  { <<"POST", <<"/","p">>, <<"PostSchema", "create">>>>,
    <<"GET",  <<"/","p">>, <<"PostSchema", "list">>>>,
    <<"GET",  <<"/","p","/",":","i","d">>, <<"show">>>>,
    <<"GET",  <<"/",":","k","/","p">>, <<"kind">>>> }

\* the URLs callers fetch, as new URL(input, location.origin) parses them
Urls ==
  { [pathname |-> <<"/","p">>, query |-> <<>>],
    [pathname |-> <<"/","p","/">>, query |-> [page |-> "2"]],
    [pathname |-> <<"/","p","/","%","6","2">>, query |-> <<>>],
    [pathname |-> <<"/","p","/","%">>, query |-> <<>>],
    [pathname |-> <<"/","%","/","q">>, query |-> <<>>] }

\* the options callers pass
Methods == {"post", "DELETE"}
Bodies == {"", BodyOk, BodyShort, BodyNumber, BodyMalformed}
OptionsSet ==
  {<<>>} \cup {[method |-> m] : m \in Methods} \cup {[body |-> b] : b \in Bodies}
         \cup {[method |-> m, body |-> b] : m \in Methods, b \in Bodies}

Next ==
  \/ InitDb
  \/ \E r \in AppRoutes : Register(r[1], r[2], r[3])
  \/ \E i \in Ids, url \in Urls, options \in OptionsSet : FetchCall(i, url, options)
  \/ \E i \in Ids : FetchResume(i)
  \/ \E i \in Ids, code \in HandlerStatuses : HandlerStatus(i, code)
  \/ \E i \in Ids : HandlerJson(i)
  \/ \E i \in Ids : HandlerSend(i)
  \/ \E i \in Ids : HandlerAdd(i)
  \/ \E i \in Ids : HandlerReturn(i)
  \/ \E i \in Ids, err \in HandlerErrors : HandlerThrow(i, err)
  \/ \E i \in Ids : FetchReturn(i)
  \/ \E i \in Ids : FetchCatch(i)

Spec == Init /\ [][Next]_vars

\* timers fire, settled promises run their continuations, and a handler that
\* was called completes
Fairness ==
  \A i \in Ids :
    /\ WF_vars(FetchResume(i))
    /\ WF_vars(HandlerReturn(i) \/ \E err \in HandlerErrors : HandlerThrow(i, err))
    /\ WF_vars(FetchReturn(i))
    /\ WF_vars(FetchCatch(i))

FairSpec == Spec /\ Fairness

\* ------------------------------------------------- direct router calls
\* a direct call of _findRoute(method, urlPath) on the current table
FindRouteCall(method, urlPath) ==
  /\ rcall' = [made |-> TRUE, routes |-> routes, method |-> method, urlPath |-> urlPath,
               result |-> FindRoute(routes, method, urlPath)]
  /\ UNCHANGED <<db, routes, store, reqs, vcall, qcall, icall>>

RouterMethods == {"GET", "POST"}
RouterPatterns ==
  { <<"/","a","/",":","x">>,        \* /a/:x
    <<"/","a","/","b">>,            \* /a/b
    <<"/",":","y","/","b">>,        \* /:y/b
    <<"/",":","x","/",":","x">>,    \* /:x/:x
    <<"/","%","/","c">>,            \* /%/c
    <<"a","/","/","b","/">> }       \* a//b/
RouterPaths ==
  { <<"/","a","/","b">>,            \* /a/b
    <<"/","a","/","%","6","2">>,    \* /a/%62
    <<"/","a","/","%">>,            \* /a/%
    <<"/","%","/","c">>,            \* /%/c
    <<"a","/","b">>,                \* a/b
    <<"/","a","/","/","b","/">>,    \* /a//b/
    <<"/","a">>,                    \* /a
    <<"/","c","/","b">> }           \* /c/b

RouterNext ==
  \/ \E m \in RouterMethods, p \in RouterPatterns : Register(m, p, <<"h">>)
  \/ \E m \in RouterMethods \cup {"DELETE"}, p \in RouterPaths : FindRouteCall(m, p)

RouterSpec == Init /\ [][RouterNext]_vars

\* --------------------------------------------- direct validator calls
\* a direct call of validateSchema(data, schema)
ValidateCall(data, schema) ==
  /\ vcall' = [made |-> TRUE, data |-> data, schema |-> schema,
               result |-> validateSchema(data, schema)]
  /\ UNCHANGED <<db, routes, store, reqs, rcall, qcall, icall>>

TitleRule == [type |-> "string", required |-> TRUE, minLength |-> 5]
Rules ==
  { TitleRule,
    [type |-> "string", required |-> TRUE],
    [type |-> "string", minLength |-> 5],
    [type |-> "string", required |-> FALSE, minLength |-> 5, maxLength |-> 8],
    [type |-> "string", required |-> TRUE, minLength |-> 5,
     enum |-> <<JStr("hi"), JStr("hello")>>],
    [type |-> "string", required |-> TRUE, minLength |-> 3, pattern |-> {"hello"}],
    [type |-> "string", required |-> TRUE, minLength |-> 0, maxLength |-> 0],
    [type |-> "number", required |-> TRUE, min |-> 0, max |-> 3],
    [required |-> TRUE, minLength |-> 5],
    [required |-> TRUE, enum |-> <<JStr("hi"), JNum(5)>>] }
ValidatorSchemas ==
  {[title |-> r] : r \in Rules} \cup
  {[title |-> TitleRule, slug |-> r] : r \in {TitleRule, [type |-> "number", min |-> 1]}}
ValidatorData ==
  { JNull, JStr("raw"), JNum(5),
    JObj(<<>>),
    JObj([title |-> JNull]),
    JObj([title |-> JStr("")]),
    JObj([title |-> JStr("hi")]),
    JObj([title |-> JStr("hello")]),
    JObj([title |-> JStr("hello world")]),
    JObj([title |-> JNum(5)]),
    JObj([title |-> JNum(0)]),
    JObj([slug |-> JStr("hi")]),
    JObj([title |-> JStr("hello"), other |-> JNum(1)]) }

ValidatorNext == \E d \in ValidatorData, sch \in ValidatorSchemas : ValidateCall(d, sch)

ValidatorSpec == Init /\ [][ValidatorNext]_vars

\* ===================================================== claims: the router
RouteOf(pattern) == MakeRoute("GET", pattern, <<"h">>)

\* route fully matches the request: same method, same segment count, every
\* literal segment equal to the request segment at its position
FullyMatches(route, method, requestSegments) ==
  /\ route.method = method
  /\ Len(route.pathSegments) = Len(requestSegments)
  /\ \A i \in 1..Len(route.pathSegments) :
       StartsWithColon(route.pathSegments[i]) \/ route.pathSegments[i] = requestSegments[i]

\* the indices of the routes of the call that fully match its request
MatchingRoutes ==
  {k \in 1..Len(rcall.routes) :
     FullyMatches(rcall.routes[k], rcall.method, SplitPath(rcall.urlPath))}

Min(S) == CHOOSE k \in S : \A j \in S : k <= j

\* C1: for every route table and request, _findRoute returns the fully
\* matching route of lowest registration index (first registration wins, no
\* specificity scoring); with /a/:x registered before /a/b, a request to
\* /a/b gets the first route with x = "b".
C1_FirstRegisteredWins ==
  rcall.made =>
    /\ MatchingRoutes # {} =>
         /\ rcall.result.kind = "match"
         /\ rcall.result.index = Min(MatchingRoutes)
    /\ ( /\ rcall.routes = <<RouteOf(<<"/","a","/",":","x">>), RouteOf(<<"/","a","/","b">>)>>
         /\ rcall.method = "GET"
         /\ rcall.urlPath = <<"/","a","/","b">> )
       => /\ rcall.result.kind = "match"
          /\ rcall.result.index = 1
          /\ rcall.result.params = [k \in {<<"x">>} |-> <<"b">>]

\* C2: _findRoute returns null exactly when no registered route fully
\* matches, and a request with no matching route always gets null, never an
\* error, whatever its segments contain.
C2_NoMatchIsNull ==
  rcall.made =>
    /\ rcall.result.kind = "null" <=> MatchingRoutes = {}
    /\ MatchingRoutes = {} => rcall.result.kind # "URIError"

\* ================================================= claims: the dispatcher
Range(a) == {a[i] : i \in 1..Len(a)}

\* fetch() got past its guard on this.db: the request was received
Begun(r) == r.trace # <<>>

\* fetch() has run _findRoute for the request
PastMatch(r) == Begun(r) /\ r.pc # "delay"

\* fetch() has settled: a Response was returned or an error was raised
Ended(r) == r.pc \in {"responded", "raised"}

\* the order of the per-request states
Successors(phase) ==
  CASE phase = "Received" -> {"Matched", "NotFound"}
    [] phase = "NotFound" -> {"Responded"}
    [] phase = "Matched" -> {"Validated", "ValidationFailed", "HandlerRunning"}
    [] phase = "Validated" -> {"HandlerRunning"}
    [] phase = "ValidationFailed" -> {"Responded"}
    [] phase = "HandlerRunning" -> {"HandlerOk", "HandlerFailed"}
    [] phase = "HandlerOk" -> {"Responded"}
    [] phase = "HandlerFailed" -> {"Responded"}
    [] OTHER -> {}

FollowsOrder(trace) ==
  /\ trace # <<>> => trace[1] = "Received"
  /\ \A k \in 1..(Len(trace) - 1) : trace[k + 1] \in Successors(trace[k])
  /\ \A j, k \in 1..Len(trace) : j # k => trace[j] # trace[k]

\* the part of C3 about the order of the states and the handler
C3_OrderOnly ==
  \A i \in Ids :
    LET r == reqs[i]
    IN  /\ FollowsOrder(r.trace)
        /\ r.handlerCalls <= 1
        /\ r.handlerCalls = 1 =>
             ("Matched" \in Range(r.trace) /\ "ValidationFailed" \notin Range(r.trace))
        /\ r.builds <= 1

\* C3: every request goes Received -> Matched|NotFound ->
\* (Validated|ValidationFailed) -> (HandlerRunning -> HandlerOk|HandlerFailed)
\* -> Responded without revisiting a state; the handler runs at most once,
\* only after a match and no validation failure; exactly one response is
\* returned per request (one build of the draft into the wire response).
C3_RequestStateOrder ==
  /\ C3_OrderOnly
  /\ \A i \in Ids :
       LET r == reqs[i]
       IN  (Begun(r) /\ Ended(r)) =>
             /\ r.trace[Len(r.trace)] = "Responded"
             /\ r.builds = 1
             /\ r.response # NoResponse

WellFormed(response) ==
  /\ response.status \in {200, 201, 204, 400, 404, 500}
  /\ response.statusText = StatusText(response.status)
  /\ response.contentType \in {"application/json", "text/plain"}

\* C4: for every request and every state of the dispatcher (any route
\* table, body, path, handler outcome, initialized or not), fetch() returns
\* a well-formed response and never raises past its own boundary.
C4_NeverRaises ==
  \A i \in Ids :
    /\ reqs[i].pc # "raised"
    /\ reqs[i].pc = "responded" => WellFormed(reqs[i].response)

GenericBody == JSONStringify(JObj([message |-> JStr("Internal Server Error")]))

\* C5: when the handler throws or rejects, fetch() catches it and returns a
\* status-500 response whose body is the fixed generic message, the same
\* whatever error was raised and whatever the handler had written to res;
\* the failure does not reach the caller.
C5_HandlerFaultIs500 ==
  \A i \in Ids :
    LET r == reqs[i]
    IN  r.thrown # "none" =>
          /\ r.pc # "raised"
          /\ r.pc = "responded" =>
               /\ r.response.status = 500
               /\ r.response.body = GenericBody
               /\ r.response.contentType = "application/json"
               /\ r.logged = r.thrown

\* a handler that wrote a body to res and then threw was answered with 500
C5_Witness ==
  \E i \in Ids :
    /\ reqs[i].pc = "responded"
    /\ reqs[i].thrown = "Error: secret"
    /\ reqs[i].res.body # JNull
    /\ reqs[i].res.status = 201
    /\ reqs[i].response.status = 500

\* the matched route of r has a schema, the method is POST, PUT or PATCH and
\* the parsed body fails schema validation (rts: the route table)
ValidationFails(r, rts) ==
  /\ PastMatch(r)
  /\ r.routeIndex # 0
  /\ rts[r.routeIndex].schema # NULL
  /\ r.method \in {"POST", "PUT", "PATCH"}
  /\ ~validateSchema(IF Has(r.options, "body") /\ r.options.body # ""
                     THEN (IF JSONParse(r.options.body).ok THEN JSONParse(r.options.body).v
                           ELSE JStr(r.options.body))
                     ELSE JNull,
                     Schemas[rts[r.routeIndex].schema]).success

C6_State ==
  \A i \in Ids :
    LET r == reqs[i]
    IN  ValidationFails(r, routes) =>
          /\ r.pc = "responded"
          /\ r.response.status = 400
          /\ r.response.body =
               JSONStringify(JObj([message |-> JStr("Validation Error"),
                                   errors |-> validateSchema(r.body,
                                                Schemas[routes[r.routeIndex].schema]).errors]))
          /\ r.handlerCalls = 0
          /\ r.writes = 0

C6_Step ==
  \A i \in Ids :
    (reqs[i].pc = "delay" /\ ValidationFails(reqs'[i], routes')) => store' = store

\* C6: whenever the matched route has a schema, the method is POST, PUT or
\* PATCH and the parsed body fails validation, the response is a 400 that
\* carries the validator's error mapping, the handler is not invoked and
\* the request leaves the store unchanged.
C6_ValidationFailureIs400 == [](C6_State) /\ [][C6_Step]_vars

\* a POST whose title is too short was answered with 400
C6_Witness ==
  \E i \in Ids :
    /\ reqs[i].pc = "responded"
    /\ reqs[i].options = [method |-> "post", body |-> BodyShort]
    /\ "ValidationFailed" \in Range(reqs[i].trace)
    /\ reqs[i].response.status = 400
    /\ reqs[i].handlerCalls = 0

\* none of the routes _findRoute saw for r fully matches its request
NoRouteMatches(r) ==
  \A k \in 1..r.seen : ~FullyMatches(routes[k], r.method, SplitPath(r.url.pathname))

\* C7: when no registered route matches the request's (method, path),
\* fetch() returns a 404 response with a descriptive message, invokes no
\* handler and raises nothing.
C7_NoMatchIs404 ==
  \A i \in Ids :
    LET r == reqs[i]
    IN  (PastMatch(r) /\ NoRouteMatches(r)) =>
          /\ r.pc = "responded"
          /\ r.response.status = 404
          /\ r.response.body =
               JSONStringify(JObj([message |->
                 JStr("Route " \o r.method \o " " \o Str(r.url.pathname) \o " not found.")]))
          /\ r.handlerCalls = 0

\* C8: once fetch() has begun on a request it eventually returns a response,
\* given that timers fire and the handler completes; no started request is
\* left without a response.
C8_EventuallyResponds ==
  \A i \in Ids : Begun(reqs[i]) ~> (reqs[i].pc = "responded")

\* the body is present and JSON.parse throws on it
MalformedBody(r) ==
  Has(r.options, "body") /\ r.options.body # "" /\ ~JSONParse(r.options.body).ok

\* C9: a body that is present but not valid JSON raises no error: the body
\* becomes the raw string, the raw string is what the request context hands
\* to the handler, and the request goes on to validation or to the handler
\* as any other request does.
C9_MalformedBodyIsRaw ==
  \A i \in Ids :
    LET r == reqs[i]
    IN  (PastMatch(r) /\ r.routeIndex # 0 /\ MalformedBody(r)) =>
          /\ r.pc # "raised" /\ r.error = "none"
          /\ r.body = JStr(r.options.body)
          /\ r.handlerCalls = 1 => r.req.body = JStr(r.options.body)
          /\ r.handlerCalls = 1 <=>
               ~(routes[r.routeIndex].schema # NULL /\ r.method \in {"POST", "PUT", "PATCH"})
          /\ r.handlerCalls = 0 => (r.pc = "responded" /\ r.response.status = 400)

\* a handler received the raw text of a malformed body and answered with it
C9_Witness ==
  \E i \in Ids :
    /\ reqs[i].pc = "responded"
    /\ reqs[i].options = [body |-> BodyMalformed]
    /\ reqs[i].req.body = JStr(BodyMalformed)
    /\ reqs[i].response.body = JSONStringify(JStr(BodyMalformed))

\* =================================================== claims: the validator
RequiredError == "Field is required"
MinLengthError(rule) == "Minimum length is " \o ToString(rule.minLength)

\* C10: a required field whose value is missing or null gets exactly one
\* error, the required one; a present string shorter than the minLength of
\* a string rule gets the minLength error and not the required one.
C10_RequiredOrMinLength ==
  (vcall.made /\ vcall.data.t = "object") =>
    \A key \in DOMAIN vcall.schema :
      LET rule == vcall.schema[key]
          errors == vcall.result.errors
      IN  /\ (Has(rule, "required") /\ rule.required /\ ~IsPresent(vcall.data, key)) =>
                /\ ~vcall.result.success
                /\ Has(errors, key)
                /\ errors[key] = <<RequiredError>>
          /\ ( /\ IsPresent(vcall.data, key)
               /\ vcall.data.f[key].t = "string"
               /\ Has(rule, "type") /\ rule.type = "string"
               /\ Has(rule, "minLength")
               /\ Len(vcall.data.f[key].s) < rule.minLength ) =>
                /\ ~vcall.result.success
                /\ Has(errors, key)
                /\ MinLengthError(rule) \in Range(errors[key])
                /\ RequiredError \notin Range(errors[key])

\* a call where one required field is missing and another is present but short
C10_Witness ==
  /\ vcall.made
  /\ vcall.schema = [title |-> TitleRule, slug |-> TitleRule]
  /\ vcall.data = JObj([slug |-> JStr("hi")])
  /\ vcall.result.errors = [title |-> <<RequiredError>>, slug |-> <<"Minimum length is 5">>]

\* the errors validateSchema reported for key (none: the empty list)
ReportedErrors(key) ==
  IF ~vcall.result.success /\ Has(vcall.result.errors, key)
  THEN vcall.result.errors[key] ELSE <<>>

TypeError(rule) == "Type must be '" \o rule.type \o "'"
EnumError(rule) == "Value must be one of: " \o Join(rule.enum)

\* the value of key is present and its runtime type is not the declared one
TypeDisagrees(key) ==
  /\ vcall.made /\ vcall.data.t = "object"
  /\ IsPresent(vcall.data, key)
  /\ Has(vcall.schema[key], "type")
  /\ (IF vcall.data.f[key].t = "null" THEN "object" ELSE vcall.data.f[key].t)
       # vcall.schema[key].type

\* C11 as stated: a present value whose runtime type disagrees with the
\* declared type gets a single error, the type error.
C11_SingleTypeError ==
  vcall.made =>
    \A key \in DOMAIN vcall.schema :
      TypeDisagrees(key) => ReportedErrors(key) = <<TypeError(vcall.schema[key])>>

\* C11 amended: such a value gets the type error first and no minLength,
\* maxLength, pattern, min or max error; the only error that can follow is
\* the enum error, present exactly when an enum is declared and the value
\* is not one of its members.
C11_TypeErrorShortCircuits ==
  vcall.made =>
    \A key \in DOMAIN vcall.schema :
      TypeDisagrees(key) =>
        LET rule == vcall.schema[key]
        IN  ReportedErrors(key) =
              <<TypeError(rule)>> \o
              (IF Has(rule, "enum") /\ \A i \in 1..Len(rule.enum) : rule.enum[i] # vcall.data.f[key]
               THEN <<EnumError(rule)>> ELSE <<>>)

\* a number under a string rule with minLength and enum: type error, then enum error
C11_Witness ==
  /\ vcall.made
  /\ vcall.data = JObj([title |-> JNum(5)])
  /\ Has(vcall.schema.title, "minLength") /\ Has(vcall.schema.title, "enum")
  /\ vcall.schema.title.type = "string"
  /\ vcall.result.errors.title = <<"Type must be 'string'", "Value must be one of: hi, hello">>

\* one error per declared and violated type-specific constraint, in the
\* order minLength, maxLength, pattern / min, max
ExpectedConstraintErrors(rule, value) ==
  IF rule.type = "string" THEN
       (IF Has(rule, "minLength") /\ Len(value.s) < rule.minLength
        THEN <<"Minimum length is " \o ToString(rule.minLength)>> ELSE <<>>)
    \o (IF Has(rule, "maxLength") /\ Len(value.s) > rule.maxLength
        THEN <<"Maximum length is " \o ToString(rule.maxLength)>> ELSE <<>>)
    \o (IF Has(rule, "pattern") /\ value.s \notin rule.pattern
        THEN <<"Does not match pattern">> ELSE <<>>)
  ELSE IF rule.type = "number" THEN
       (IF Has(rule, "min") /\ value.n < rule.min
        THEN <<"Minimum value is " \o ToString(rule.min)>> ELSE <<>>)
    \o (IF Has(rule, "max") /\ value.n > rule.max
        THEN <<"Maximum value is " \o ToString(rule.max)>> ELSE <<>>)
  ELSE <<>>

\* C15: a present value of the declared type gets exactly one error per
\* violated declared constraint, for every declared bound including 0, in
\* the order minLength, maxLength, pattern (strings) and min, max (numbers);
\* several violations on one field all appear.
C15_ConstraintErrorsAccumulate ==
  (vcall.made /\ vcall.data.t = "object") =>
    \A key \in DOMAIN vcall.schema :
      LET rule == vcall.schema[key]
      IN  ( /\ IsPresent(vcall.data, key)
            /\ Has(rule, "type")
            /\ vcall.data.f[key].t = rule.type ) =>
            ReportedErrors(key) =
              ExpectedConstraintErrors(rule, vcall.data.f[key]) \o
              (IF Has(rule, "enum") /\ ~Includes(rule.enum, vcall.data.f[key])
               THEN <<EnumError(rule)>> ELSE <<>>)

\* data without the properties the schema does not name
KnownFieldsOnly(data, schema) ==
  JObj([key \in (DOMAIN data.f) \cap (DOMAIN schema) |-> data.f[key]])

\* C19: for every record and schema, success is true exactly when no schema
\* field accumulated an error; errors is null exactly when success is true
\* and otherwise maps each failing field, and only those, to its non-empty
\* list of violations; properties the schema does not name never affect the
\* result.
C19_ResultShape ==
  (vcall.made /\ vcall.data.t = "object") =>
    LET result == vcall.result
        failing == {key \in DOMAIN vcall.schema :
                      FieldErrors(vcall.schema[key], vcall.data, key) # <<>>}
    IN  /\ result.success <=> failing = {}
        /\ result.success <=> result.errors = JNull
        /\ ~result.success =>
             /\ DOMAIN result.errors = failing
             /\ \A key \in failing :
                  /\ result.errors[key] # <<>>
                  /\ result.errors[key] = FieldErrors(vcall.schema[key], vcall.data, key)
        /\ result = validateSchema(KnownFieldsOnly(vcall.data, vcall.schema), vcall.schema)

\* a record with a property the schema does not name passes on its named field alone
C19_Witness ==
  /\ vcall.made
  /\ vcall.data = JObj([title |-> JStr("hello"), other |-> JNum(1)])
  /\ vcall.schema = [title |-> TitleRule]
  /\ vcall.result = [success |-> TRUE, errors |-> JNull]

\* ============================================ claims: the router, params
\* the non-empty pieces of a path between its slashes
NonEmptySegments(path) == SelectSeq(Split(path), LAMBDA g : g # <<>>)

\* the parameter names of a route are pairwise different
UniqueNames(route) ==
  \A j, k \in 1..Len(route.params) : j # k => route.params[j].name # route.params[k].name

\* C17: when _findRoute succeeds, params has exactly the parameter names of
\* the winning route, each mapped to the URL-decoded request segment at the
\* parameter's position; nothing captured while trying an earlier route is
\* in it; literal segments equal the request's segments as written, undecoded.
C17_ParamsOfWinningRoute ==
  (rcall.made /\ rcall.result.kind = "match") =>
    LET route == rcall.routes[rcall.result.index]
        segs == NonEmptySegments(rcall.urlPath)
        params == rcall.result.params
    IN  /\ DOMAIN params = {route.params[j].name : j \in 1..Len(route.params)}
        /\ UniqueNames(route) =>
             \A j \in 1..Len(route.params) :
               LET d == decodeURIComponent(segs[route.params[j].index + 1])
               IN  d.ok /\ params[route.params[j].name] = d.v
        /\ \A i \in 1..Len(route.pathSegments) :
             route.pathSegments[i][1] # ":" => route.pathSegments[i] = segs[i]

\* /a/%62 fails /:y/b on its literal after y was captured, then matches /a/:x
C17_Witness ==
  /\ rcall.made
  /\ rcall.routes = <<RouteOf(<<"/",":","y","/","b">>), RouteOf(<<"/","a","/",":","x">>)>>
  /\ rcall.method = "GET"
  /\ rcall.urlPath = <<"/","a","/","%","6","2">>
  /\ rcall.result = [kind |-> "match", index |-> 2, params |-> [k \in {<<"x">>} |-> <<"b">>]]

\* C18: leading, trailing and repeated slashes are insignificant on both
\* sides: a request path, or a registered pattern, replaced by one with the
\* same non-empty segments gives the same route and the same params.
C18_SlashesInsignificant ==
  rcall.made =>
    /\ \A p \in RouterPaths :
         NonEmptySegments(p) = NonEmptySegments(rcall.urlPath) =>
           FindRoute(rcall.routes, rcall.method, p) = rcall.result
    /\ \A k \in 1..Len(rcall.routes) : \A p \in RouterPatterns :
         NonEmptySegments(p) = NonEmptySegments(rcall.routes[k].path) =>
           FindRoute([rcall.routes EXCEPT ![k] = MakeRoute(@.method, p, <<@.handler>>)],
                     rcall.method, rcall.urlPath) = rcall.result

\* the pattern a//b/ answers the request /a/b
C18_Witness ==
  /\ rcall.made
  /\ rcall.routes = <<RouteOf(<<"a","/","/","b","/">>)>>
  /\ rcall.method = "GET"
  /\ rcall.urlPath = <<"/","a","/","b">>
  /\ rcall.result = [kind |-> "match", index |-> 1, params |-> <<>>]

\* ============================================ DbWrapper.find
\* item[key]: a missing property reads as undefined
JUndefined == [t |-> "undefined"]

Get(item, key) == IF key \in DOMAIN item THEN item[key] ELSE JUndefined

\* ToNumber of a string: '' is 0, a decimal numeral is its value, any other
\* text is NaN (numerals up to MaxNumber, no padding or signs)
StringToNumber(str) ==
  IF str = "" THEN [ok |-> TRUE, n |-> 0]
  ELSE IF \E n \in 0..MaxNumber : ToString(n) = str
       THEN [ok |-> TRUE, n |-> CHOOSE n \in 0..MaxNumber : ToString(n) = str]
       ELSE [ok |-> FALSE]

\* ToNumber of a value: null is 0, undefined is NaN
ToNumber(v) ==
  CASE v.t = "number" -> [ok |-> TRUE, n |-> v.n]
    [] v.t = "string" -> StringToNumber(v.s)
    [] v.t = "null" -> [ok |-> TRUE, n |-> 0]
    [] OTHER -> [ok |-> FALSE]

\* a == b on strings, numbers, null and undefined
LooseEq(a, b) ==
  CASE a.t = "string" /\ b.t = "string" -> a.s = b.s
    [] a.t = "number" /\ b.t = "number" -> a.n = b.n
    [] a.t \in {"null", "undefined"} /\ b.t \in {"null", "undefined"} -> TRUE
    [] a.t \in {"null", "undefined"} \/ b.t \in {"null", "undefined"} -> FALSE
    [] OTHER -> LET x == ToNumber(a)
                    y == ToNumber(b)
                IN  x.ok /\ y.ok /\ x.n = y.n

\* a === b
StrictEq(a, b) == a = b

\* a < b where at least one side is not a string: both sides ToNumber, and
\* false when either is NaN
LessThan(a, b) ==
  LET x == ToNumber(a)
      y == ToNumber(b)
  IN  x.ok /\ y.ok /\ x.n < y.n

\* the filter loop with !== in place of !=
MatchesStrictly(item, filter) ==
  \A key \in DOMAIN filter : StrictEq(Get(item, key), filter[key])

\* for (const key in filter) if (item[key] != filter[key]) match = false
Matches(item, filter) ==
  \A key \in DOMAIN filter : LooseEq(Get(item, key), filter[key])

\* the cursor loop: every matching item is pushed, in cursor order
RECURSIVE Filter(_, _)
Filter(records, filter) ==
  IF records = <<>> THEN <<>>
  ELSE (IF Matches(Head(records), filter) THEN <<Head(records)>> ELSE <<>>)
       \o Filter(Tail(records), filter)

toLowerCase(str) ==
  CASE str = "ASC" -> "asc" [] str = "Asc" -> "asc"
    [] str = "DESC" -> "desc" [] str = "Desc" -> "desc"
    [] OTHER -> str

\* the comparator with the order ignored
ComparatorAscending(a, b, sortKey, order) ==
  IF LessThan(Get(a, sortKey), Get(b, sortKey)) THEN -1
  ELSE IF LessThan(Get(b, sortKey), Get(a, sortKey)) THEN 1
  ELSE 0

\* the function handed to results.sort
Comparator(a, b, sortKey, order) ==
  IF LessThan(Get(a, sortKey), Get(b, sortKey)) THEN (IF order = "asc" THEN -1 ELSE 1)
  ELSE IF LessThan(Get(b, sortKey), Get(a, sortKey)) THEN (IF order = "asc" THEN 1 ELSE -1)
  ELSE 0

\* Array.prototype.sort is stable: an item goes behind everything that does
\* not compare greater than it
RECURSIVE InsertBehind(_, _, _, _)
InsertBehind(sorted, item, sortKey, order) ==
  IF sorted = <<>> THEN <<item>>
  ELSE IF Comparator(sorted[Len(sorted)], item, sortKey, order) > 0
       THEN InsertBehind(SubSeq(sorted, 1, Len(sorted) - 1), item, sortKey, order)
            \o <<sorted[Len(sorted)]>>
       ELSE sorted \o <<item>>

RECURSIVE SortFrom(_, _, _, _, _)
SortFrom(results, k, sorted, sortKey, order) ==
  IF k > Len(results) THEN sorted
  ELSE SortFrom(results, k + 1, InsertBehind(sorted, results[k], sortKey, order), sortKey, order)

\* sort is the list of the (key, direction) entries of the sort object, in
\* key order; Object.keys(sort)[0] is the first
Sort(results, sort) ==
  IF sort = <<>> \/ sort[1][1] = "" THEN results
  ELSE SortFrom(results, 1, <<>>, sort[1][1], toLowerCase(sort[1][2]))

\* Array.prototype.slice(start, end): negative indices count from the end
Slice(arr, start, end) ==
  LET len == Len(arr)
      from == IF start < 0 THEN (IF len + start < 0 THEN 0 ELSE len + start)
              ELSE IF start > len THEN len ELSE start
      to == IF end < 0 THEN (IF len + end < 0 THEN 0 ELSE len + end)
            ELSE IF end > len THEN len ELSE end
  IN  IF to <= from THEN <<>> ELSE SubSeq(arr, from + 1, to)

\* pagination with the page number taken as 0-based
PaginateFromPage(results, paginate) ==
  IF Has(paginate, "page") /\ Has(paginate, "limit")
     /\ paginate.page # 0 /\ paginate.limit # 0
  THEN LET page == IF paginate.page < 1 THEN 1 ELSE paginate.page
           limit == paginate.limit
           startIndex == page * limit
       IN  Slice(results, startIndex, startIndex + limit)
  ELSE results

\* if (paginate.page && paginate.limit) results = results.slice(...)
Paginate(results, paginate) ==
  IF Has(paginate, "page") /\ Has(paginate, "limit")
     /\ paginate.page # 0 /\ paginate.limit # 0
  THEN LET page == IF paginate.page < 1 THEN 1 ELSE paginate.page
           limit == paginate.limit
           startIndex == (page - 1) * limit
       IN  Slice(results, startIndex, startIndex + limit)
  ELSE results

\* find: what the cursor pushed, what the sort left, what is resolved
Find(records, query) ==
  LET filtered == Filter(records, query.filter)
      sorted == Sort(filtered, query.sort)
  IN  [filtered |-> filtered, sorted |-> sorted,
       result |-> Paginate(sorted, query.paginate)]

\* a direct call of find on a store whose cursor yields records
FindCall(records, query) ==
  /\ qcall' = [made |-> TRUE, records |-> records, query |-> query] @@ Find(records, query)
  /\ UNCHANGED <<db, routes, store, reqs, rcall, vcall, icall>>

Post(id, status, views) == [id |-> JNum(id), status |-> status, views |-> JNum(views)]

FiveRecords ==
  << Post(1, JStr("draft"), 2), Post(2, JStr("published"), 1), Post(3, JStr("draft"), 2),
     Post(4, JStr("draft"), 1), Post(5, JStr("published"), 3) >>

\* records whose status is a number, a numeral, null or missing
MixedRecords ==
  << Post(6, JNum(1), 0), Post(7, JStr("1"), 0), [id |-> JNum(8), views |-> JNum(0)],
     Post(9, JNull, 0), Post(10, JStr("draft"), 0) >>

QueryRecords == {<<>>, FiveRecords, MixedRecords}

QueryFilters ==
  { <<>>, [status |-> JStr("draft")], [status |-> JStr("1")], [status |-> JNum(1)],
    [status |-> JNull], [status |-> JStr("draft"), views |-> JNum(2)],
    [views |-> JStr("2")] }

QuerySorts ==
  { <<>>, << <<"views", "asc">> >>, << <<"views", "desc">> >>, << <<"views", "DESC">> >>,
    << <<"id", "desc">>, <<"views", "asc">> >> }

QueryPaginates ==
  { <<>>, [page |-> 1], [page |-> 1, limit |-> 2], [page |-> 2, limit |-> 2],
    [page |-> 3, limit |-> 2], [page |-> 10, limit |-> 2], [page |-> 0, limit |-> 2],
    [page |-> 1, limit |-> 0], [page |-> 1, limit |-> -1] }

QueryNext ==
  \E records \in QueryRecords, f \in QueryFilters, srt \in QuerySorts, pg \in QueryPaginates :
    FindCall(records, [filter |-> f, sort |-> srt, paginate |-> pg])

QuerySpec == Init /\ [][QueryNext]_vars

\* ============================================ claims: the query engine
\* C12: with no sort and no pagination the result is the subsequence of the
\* records whose value at every filter key loosely equals the filter's value,
\* in the original order; with an empty filter too, the records unchanged.
C12_FilterKeepsLooseMatches ==
  (qcall.made /\ qcall.query.sort = <<>> /\ qcall.query.paginate = <<>>) =>
    /\ qcall.result =
         SelectSeq(qcall.records,
                   LAMBDA item : \A key \in DOMAIN qcall.query.filter :
                                   LooseEq(Get(item, key), qcall.query.filter[key]))
    /\ qcall.query.filter = <<>> => qcall.result = qcall.records

\* the filter {status: '1'} keeps the number 1 and the numeral '1'
C12_Witness ==
  /\ qcall.made
  /\ qcall.records = MixedRecords
  /\ qcall.query = [filter |-> [status |-> JStr("1")], sort |-> <<>>, paginate |-> <<>>]
  /\ qcall.result = <<Post(6, JNum(1), 0), Post(7, JStr("1"), 0)>>

Ascending(direction) == direction \in {"asc", "ASC"}

\* the place of an item in a sequence of different items
Position(seq, item) == CHOOSE i \in 1..Len(seq) : seq[i] = item

\* C13: with a sort key, the sequence before pagination is a permutation of
\* the filtered records, non-decreasing by the key for ascending and
\* non-increasing for descending, and records with equal keys keep their
\* relative order, in both directions.
C13_StableSortInDirection ==
  (qcall.made /\ qcall.query.sort # <<>>) =>
    LET key == qcall.query.sort[1][1]
        direction == qcall.query.sort[1][2]
        before == qcall.filtered
        after == qcall.sorted
    IN  /\ Len(after) = Len(before)
        /\ Range(after) = Range(before)
        /\ \A i, j \in 1..Len(after) :
             i < j => IF Ascending(direction) THEN after[i][key].n <= after[j][key].n
                      ELSE after[i][key].n >= after[j][key].n
        /\ \A i, j \in 1..Len(before) :
             (i < j /\ before[i][key] = before[j][key]) =>
               Position(after, before[i]) < Position(after, before[j])
        /\ qcall.query.paginate = <<>> => qcall.result = after

\* descending by views: 5 first, then the two 2s and the two 1s as they came
C13_Witness ==
  /\ qcall.made
  /\ qcall.records = FiveRecords
  /\ qcall.query = [filter |-> <<>>, sort |-> << <<"views", "desc">> >>, paginate |-> <<>>]
  /\ qcall.result = <<FiveRecords[5], FiveRecords[1], FiveRecords[3], FiveRecords[2], FiveRecords[4]>>

\* C14: with page >= 1 and limit > 0 the result is the elements at 0-indexed
\* positions [(page-1)*limit, page*limit) of the filtered and sorted
\* sequence, at most limit of them; a page past the end gives the empty
\* sequence.
C14_PageSlice ==
  ( /\ qcall.made
    /\ Has(qcall.query.paginate, "page") /\ Has(qcall.query.paginate, "limit")
    /\ qcall.query.paginate.page >= 1 /\ qcall.query.paginate.limit > 0 ) =>
    LET page == qcall.query.paginate.page
        limit == qcall.query.paginate.limit
        positions == {i \in (page - 1) * limit .. page * limit - 1 : i < Len(qcall.sorted)}
    IN  /\ Len(qcall.result) = Cardinality(positions)
        /\ \A i \in positions : qcall.result[i - (page - 1) * limit + 1] = qcall.sorted[i + 1]
        /\ Len(qcall.result) <= limit
        /\ (page - 1) * limit >= Len(qcall.sorted) => qcall.result = <<>>
        /\ Range(qcall.sorted)
             = {item \in Range(qcall.records) :
                  \A key \in DOMAIN qcall.query.filter :
                    LooseEq(Get(item, key), qcall.query.filter[key])}

\* page 2 of 2 over the five records sorted by views: positions 2 and 3
C14_Witness ==
  /\ qcall.made
  /\ qcall.records = FiveRecords
  /\ qcall.query = [filter |-> <<>>, sort |-> << <<"views", "asc">> >>,
                    paginate |-> [page |-> 2, limit |-> 2]]
  /\ qcall.result = <<FiveRecords[1], FiveRecords[3]>>

\* ============================================ claims: the handler's status
\* C16: when the handler returned without throwing, the response's status
\* is the status the handler last set on res, 200 when it set none, and
\* nothing is raised.
C16_HandlerOkStatus ==
  \A i \in Ids :
    LET r == reqs[i]
    IN  "HandlerOk" \in Range(r.trace) =>
          /\ r.pc # "raised"
          /\ r.pc = "responded" => r.response.status = r.res.status

\* ============================================ requests in flight at once
\* two fetch() calls made without awaiting the first
ConcIds == {1, 2}

ConcInit ==
  /\ db = FALSE
  /\ routes = <<>>
  /\ store = [n \in StoreNames |-> <<>>]
  /\ reqs = [i \in ConcIds |-> IdleReq]
  /\ rcall = [made |-> FALSE]
  /\ vcall = [made |-> FALSE]
  /\ qcall = [made |-> FALSE]
  /\ icall = [made |-> FALSE]

ConcRoutes ==
  { <<"GET",  <<"/","p","/",":","i","d">>, <<"show">>>>,
    <<"POST", <<"/","p">>, <<"PostSchema", "create">>>> }

\* the (url, options) pairs the callers pass
ConcCalls ==
  { <<[pathname |-> <<"/","p","/","a">>, query |-> <<>>], <<>>>>,
    <<[pathname |-> <<"/","p","/","b">>, query |-> [page |-> "2"]], <<>>>>,
    <<[pathname |-> <<"/","p">>, query |-> <<>>], [method |-> "post", body |-> BodyOk]>> }

ConcStatuses == {404}
ConcErrors == {"Error: secret"}

ConcNext ==
  \/ InitDb
  \/ \E r \in ConcRoutes : Register(r[1], r[2], r[3])
  \/ \E i \in ConcIds, c \in ConcCalls : FetchCall(i, c[1], c[2])
  \/ \E i \in ConcIds : FetchResume(i)
  \/ \E i \in ConcIds, code \in ConcStatuses : HandlerStatus(i, code)
  \/ \E i \in ConcIds : HandlerJson(i)
  \/ \E i \in ConcIds : HandlerAdd(i)
  \/ \E i \in ConcIds : HandlerReturn(i)
  \/ \E i \in ConcIds, err \in ConcErrors : HandlerThrow(i, err)
  \/ \E i \in ConcIds : FetchReturn(i)
  \/ \E i \in ConcIds : FetchCatch(i)

ConcSpec == ConcInit /\ [][ConcNext]_vars

\* the body of r as its caller passed it, or with the id one add() gave it
OwnBodies(r) ==
  LET body == IF Has(r.options, "body") /\ r.options.body # ""
              THEN (IF JSONParse(r.options.body).ok THEN JSONParse(r.options.body).v
                    ELSE JStr(r.options.body))
              ELSE JNull
  IN  {body} \cup (IF body.t = "object"
                   THEN {JObj(Put(body.f, "id", JStr("uuid-" \o ToString(n)))) :
                           n \in 1..Len(store["posts"])}
                   ELSE {})

C20_State ==
  \A i \in ConcIds :
    LET r == reqs[i]
    IN  /\ r.handlerCalls = 1 =>
             /\ r.req.params = FindRoute(SubSeq(routes, 1, r.seen), r.method, r.url.pathname).params
             /\ r.req.query = r.url.query
             /\ r.req.body \in OwnBodies(r)
             /\ r.res.body \in {JNull} \cup {JSONStringify(b) : b \in OwnBodies(r)}
        /\ (r.pc = "responded" /\ "HandlerOk" \in Range(r.trace)) =>
             r.response = IF BuildError(r.res) = "none" THEN Build(r.res)
                          ELSE InternalErrorResponse

C20_Step ==
  \A i, j \in ConcIds : (i # j /\ reqs'[i] # reqs[i]) => reqs'[j] = reqs[j]

\* C20: with several requests in flight at once, their awaits interleaved in
\* any order, each handler receives the params, query, body and res built
\* for its own request, the response returned to a caller is the one built
\* from its own request's res, and no step of one request changes another's.
C20_RequestsIndependent == [](C20_State) /\ [][C20_Step]_vars

\* both handlers are running: GET /p/a has set 404, POST /p has written its body
C20_Witness ==
  /\ reqs[1].pc = "handler" /\ reqs[2].pc = "handler"
  /\ reqs[1].url.pathname = <<"/","p","/","a">>
  /\ reqs[1].req.params = [k \in {<<"i","d">>} |-> <<"a">>]
  /\ reqs[2].req.params = <<>>
  /\ reqs[2].req.body = JSONParse(BodyOk).v
  /\ reqs[1].res = Status(NewResponseHelper, 404)
  /\ reqs[2].options = [method |-> "post", body |-> BodyOk]
  /\ reqs[2].res = Json(NewResponseHelper, JSONParse(BodyOk).v)

\* ============================================ MockApi.importData
\* an array value of data
JArr(a) == [t |-> "array", a |-> a]

\* the value is falsy: data[storeName] || [] puts [] in its place
Falsy(v) ==
  \/ v.t \in {"null", "undefined"}
  \/ v.t = "string" /\ v.s = ""
  \/ v.t = "number" /\ v.n = 0

\* the store has keyPath 'id' and no key generator: add(record) needs a
\* record with a valid key at id
HasKey(record) ==
  /\ record.t = "object"
  /\ Has(record.f, "id")
  /\ record.f.id.t \in {"number", "string"}

\* the key order of the object store: numbers by value, numbers before
\* strings; two strings stay in the order they were added
KeyLess(a, b) ==
  \/ a.t = "number" /\ b.t = "number" /\ a.n < b.n
  \/ a.t = "number" /\ b.t = "string"

\* the object store keeps its records in key order
RECURSIVE InsertByKey(_, _)
InsertByKey(content, record) ==
  IF content = <<>> THEN <<record>>
  ELSE IF KeyLess(record.f.id, content[Len(content)].f.id)
       THEN InsertByKey(SubSeq(content, 1, Len(content) - 1), record) \o <<content[Len(content)]>>
       ELSE content \o <<record>>

\* records.forEach(record => store.add(record)): a record without a key
\* makes add() throw DataError, which ends the loop; an add() of a key the
\* store already holds is queued and fails later with ConstraintError
RECURSIVE AddRecords(_, _, _)
AddRecords(acc, records, k) ==
  IF k > Len(records) THEN acc
  ELSE IF ~HasKey(records[k]) THEN [acc EXCEPT !.thrown = "DataError"]
  ELSE IF \E j \in 1..Len(acc.content) : acc.content[j].f.id = records[k].f.id
       THEN AddRecords([acc EXCEPT !.failed = TRUE], records, k + 1)
       ELSE AddRecords([acc EXCEPT !.content = InsertByKey(@, records[k])], records, k + 1)

\* the loop body without store.clear(): the records are added to what the
\* store holds
ImportStoreKeeps(previous, value) ==
  IF ~Falsy(value) /\ value.t # "array"
  THEN [content |-> previous, failed |-> FALSE, thrown |-> "TypeError"]
  ELSE AddRecords([content |-> previous, failed |-> FALSE, thrown |-> "none"],
                  IF Falsy(value) THEN <<>> ELSE value.a, 1)

\* the loop body for one store: store.clear(), then an add() per record of
\* data[storeName] || []; forEach on a value that is no array throws TypeError
ImportStore(previous, value) ==
  IF ~Falsy(value) /\ value.t # "array"
  THEN [content |-> <<>>, failed |-> FALSE, thrown |-> "TypeError"]
  ELSE AddRecords([content |-> <<>>, failed |-> FALSE, thrown |-> "none"],
                  IF Falsy(value) THEN <<>> ELSE value.a, 1)

\* for (const storeName of storeNamesToImport): what the transaction holds
\* when the loop ends or throws
RECURSIVE ImportStores(_, _, _, _)
ImportStores(entries, k, st, failed) ==
  IF k > Len(entries) THEN [store |-> st, failed |-> failed, thrown |-> "none"]
  ELSE LET r == ImportStore(st[entries[k][1]], entries[k][2])
           next == [st EXCEPT ![entries[k][1]] = r.content]
       IN  IF r.thrown # "none"
           THEN [store |-> next, failed |-> failed \/ r.failed, thrown |-> r.thrown]
           ELSE ImportStores(entries, k + 1, next, failed \/ r.failed)

\* importData(data); data is the list of its (key, value) entries in key
\* order. A failed add() aborts the transaction, which rolls everything
\* back; an exception thrown in the loop rejects the promise but leaves the
\* requests already queued to commit.
ImportData(data) ==
  LET storeNamesToImport == SelectSeq(data, LAMBDA e : e[1] \in StoreNames)
      run == ImportStores(storeNamesToImport, 1, store, FALSE)
      outcome ==
        IF storeNamesToImport = <<>> THEN [result |-> "false", store |-> store]
        ELSE IF ~db THEN [result |-> "rejected", store |-> store]
        ELSE IF run.failed THEN [result |-> "rejected", store |-> store]
        ELSE IF run.thrown # "none" THEN [result |-> "rejected", store |-> run.store]
        ELSE [result |-> "true", store |-> run.store]
  IN  /\ store' = outcome.store
      /\ icall' = [made |-> TRUE, data |-> data, before |-> store, after |-> outcome.store,
                   result |-> outcome.result]
      /\ UNCHANGED <<db, routes, reqs, rcall, vcall, qcall>>

Item(id) == JObj([id |-> JNum(id), title |-> JStr("Imported Post")])

ImportValues ==
  { JNull, JArr(<<>>), JArr(<<Item(2), Item(1)>>), JArr(<<Item(3)>>),
    JArr(<<Item(1), Item(1)>>), JArr(<<Item(1), JObj([title |-> JStr("no id")])>>),
    JStr("oops") }

\* the keys of data: the configured stores and one that is not configured
ImportNames == StoreNames \cup {"comments"}

ImportDatas ==
  {<<>>} \cup {<<<<n, v>>>> : n \in ImportNames, v \in ImportValues}
         \cup {<<<<n, v>>, <<m, w>>>> : n \in ImportNames, m \in ImportNames,
                                         v \in {JArr(<<Item(2), Item(1)>>), JArr(<<Item(3)>>)},
                                         w \in ImportValues}

ImportNext ==
  \/ InitDb
  \/ \E data \in {d \in ImportDatas : \A j, k \in 1..Len(d) : j # k => d[j][1] # d[k][1]} :
       ImportData(data)

ImportSpec == Init /\ [][ImportNext]_vars

\* ============================================ claims: importData
\* the stores data names that are configured
NamedStores(data) == {data[k][1] : k \in 1..Len(data)} \cap StoreNames

\* the records data gives for a store it names
GivenRecords(data, name) ==
  LET k == CHOOSE k \in 1..Len(data) : data[k][1] = name
  IN  IF data[k][2].t = "array" THEN data[k][2].a ELSE <<>>

\* C21: after importData(data) resolved true, every configured store named
\* in data holds exactly the records data gives for it, every store not
\* named is as it was, and keys that are no configured store change
\* nothing; when data names no configured store importData returns false
\* and every store is as it was.
C21_ImportReplaces ==
  icall.made =>
    /\ icall.result = "true" =>
         /\ DOMAIN icall.after = StoreNames
         /\ \A name \in StoreNames :
              IF name \in NamedStores(icall.data)
              THEN /\ Range(icall.after[name]) = Range(GivenRecords(icall.data, name))
                   /\ Len(icall.after[name]) = Len(GivenRecords(icall.data, name))
              ELSE icall.after[name] = icall.before[name]
    /\ NamedStores(icall.data) = {} =>
         /\ icall.result = "false"
         /\ icall.after = icall.before
    /\ store = icall.after

\* posts held record 3 and is overwritten with 1 and 2; users is not named
\* and keeps 1 and 2; the key comments is ignored
C21_Witness ==
  /\ icall.made
  /\ icall.result = "true"
  /\ icall.data = << <<"posts", JArr(<<Item(2), Item(1)>>)>>, <<"comments", JArr(<<Item(3)>>)>> >>
  /\ icall.before = [posts |-> <<Item(3)>>, users |-> <<Item(1), Item(2)>>]
  /\ store = [posts |-> <<Item(1), Item(2)>>, users |-> <<Item(1), Item(2)>>]

====
